---------------------------- MODULE Spec2Model ----------------------------
(***************************************************************************)
(* A model of PyIRC's IrcBot.py: the Event class (an ordered handler       *)
(* list), the Config reader, and the Bot (connect, the read loop           *)
(* mainloop, handle_msg and its regular expression, the send path and the  *)
(* four built-in event handlers).                                          *)
(*                                                                         *)
(* Text.  A Python string is modelled as a sequence of symbols.  A symbol  *)
(* is either one of the characters the code tells apart (" ", ":", "!",    *)
(* "+", "-"), the line terminator "\r\n", or a word: a non-empty run of    *)
(* ordinary characters (no white space, none of : ! + -) that the code     *)
(* never looks inside.  A read may end between any two symbols.            *)
(***************************************************************************)
EXTENDS Naturals, Sequences, FiniteSets

\* ------------------------------------------------------------------ bounds

\* The number of lines the server sends in one session.
MaxLines == 2

\* The number of events a caller publishes on the bot's events in one run.
MaxPublishes == 3

\* The number of symbols of the trailing text of a line given to the parser.
MaxTrailing == 2

\* ---------------------------------------------------------------- constants

\* The buffer size of socket.recv in mainloop, in symbols.
RecvSize == 1024

\* ------------------------------------------------------------------- text

CRLF == "\r\n"

\* str.isspace, the regular expression's \s, and its complement \S.
Space == {" ", CRLF}

\* The regular expression's class [:+-].
Markers == {":", "+", "-"}

\* The symbols that are a single character.
SingleChars == {" ", ":", "!", "+", "-"}

\* The first character of a word, which no comparison of the code matches.
OrdChar == "<char>"

\* Python's None, and how str.format prints it.
None == "<None>"

Str(v) == IF v = None THEN "None" ELSE v

Range(s) == {s[i] : i \in 1..Len(s)}

Min(a, b) == IF a < b THEN a ELSE b

\* F applied to the value of v, which is computed once.
Let(v, F(_)) == CHOOSE r \in {F(x) : x \in {v}} : TRUE

\* s[0] of a Python string: its first character.
FirstChar(s) == IF s[1] \in SingleChars THEN s[1] ELSE OrdChar

\* The length of the longest run of symbols of S in s from index i on.
RECURSIVE RunIn(_, _, _)
RunIn(s, i, S) ==
    IF i > Len(s) \/ s[i] \notin S THEN 0 ELSE 1 + RunIn(s, i + 1, S)

\* The length of the longest run of symbols outside S in s from index i on.
RECURSIVE RunNotIn(_, _, _)
RunNotIn(s, i, S) ==
    IF i > Len(s) \/ s[i] \in S THEN 0 ELSE 1 + RunNotIn(s, i + 1, S)

\* s[i:i+n]
Slice(s, i, n) == SubSeq(s, i, i + n - 1)

\* str.rstrip(): s without its trailing white space.
RECURSIVE RStrip(_)
RStrip(s) ==
    IF s # <<>> /\ s[Len(s)] \in Space THEN RStrip(SubSeq(s, 1, Len(s) - 1))
    ELSE s

\* str.split() and, for text without quotes, shlex.split(): the maximal runs
\* of non-space symbols, in order.
RECURSIVE SplitFrom(_, _)
SplitFrom(s, i) ==
    IF i > Len(s) THEN <<>>
    ELSE IF s[i] \in Space THEN SplitFrom(s, i + 1)
    ELSE Let(RunNotIn(s, i, Space),
             LAMBDA n : <<Slice(s, i, n)>> \o SplitFrom(s, i + n))

Split(s) == SplitFrom(s, 1)

\* str.startswith(p)
StartsWith(s, p) == Len(s) >= Len(p) /\ SubSeq(s, 1, Len(p)) = p

\* p in s, for strings
Contains(s, p) ==
    \E i \in 1..(Len(s) + 1) :
        i + Len(p) - 1 <= Len(s) /\ Slice(s, i, Len(p)) = p

\* ------------------------------------------------------------ Event class

Signals == {"COMMAND", "JOIN", "KICK", "MODE", "NOTICE", "PRIVMSG"}

\* The handlers of the bot, and the callbacks of a client of an Event:
\* two that return and one that raises.
BuiltinHandlers == {"on_command", "on_privmsg", "on_kick", "on_mode"}
ClientHandlers == {"hA", "hB", "hRaise"}

\* Event.__init__: the handler list of every event starts empty.
NoHandlers == [s \in Signals |-> <<>>]

\* Event.__iadd__ on the handler list hs.
EventIAdd(hs, h) == IF h \notin Range(hs) THEN Append(hs, h) ELSE hs

\* list.remove(h): hs without its first h.
RemoveFirst(hs, h) ==
    LET i == CHOOSE k \in 1..Len(hs) :
                 hs[k] = h /\ \A j \in 1..(k - 1) : hs[j] # h
    IN  SubSeq(hs, 1, i - 1) \o SubSeq(hs, i + 1, Len(hs))

\* Event.__isub__ on the handler list hs.
EventISub(hs, h) == IF h \in Range(hs) THEN RemoveFirst(hs, h) ELSE hs

\* ----------------------------------------------------------------- Config

\* Config.__slots__, without the private prefix.
ConfigSlots == {"command_char", "channel", "file", "nick", "password", "server"}

\* Config.__init__: every setting starts as None.
EmptyConfig == [k \in ConfigSlots |-> None]

\* The configuration files of the model, as key -> value: the file that
\* write_basic_config describes, which also names the prefix as cchar, the
\* key that the bot reads.
ConfigKeys == ConfigSlots \cup {"cchar", "colour"}

FullFile ==
    [k \in ConfigKeys |->
        CASE k = "nick" -> "bot"
          [] k = "server" -> "irc.example"
          [] k = "password" -> "pw"
          [] k = "channel" -> "#home"
          [] k = "command_char" -> "!"
          [] k = "cchar" -> "!"
          [] OTHER -> None]

ConfigFiles == {FullFile}

\* Config.__get_config: a line sets a setting only when hasattr finds the
\* slot _Config__<key>; a key of the file that is None stands for no line.
LoadConfig(file) ==
    [k \in ConfigSlots |-> IF file[k] # None THEN file[k] ELSE EmptyConfig[k]]

\* Config.get: the slot's value, and None when there is no such slot.
ConfigGet(cfg, setting) ==
    IF setting \in ConfigSlots THEN cfg[setting] ELSE None

\* -------------------------------------------------------- the bot's state

VARIABLES
    pc,         \* constructed | running | exited (sys.exit) | crashed
    connected,  \* Bot.__connected
    soc,        \* Bot.__soc: fresh | connected | closed
    config,     \* Bot.__config
    handlers,   \* the handler list of each of the bot's six events
    inflight,   \* what the server has sent and recv has not returned yet
    rxAll,      \* everything recv has returned so far
    nLines,     \* how many lines the server has sent
    outbox,     \* every line handed to the connected socket, in order
    nCalls,     \* how many events a caller has published directly
    peer,       \* the server's end of the connection: open | closed | reset
    last        \* what the last step did

vars == <<pc, connected, soc, config, handlers, inflight, rxAll, nLines,
          outbox, nCalls, peer, last>>

\* A parsed message: the dict com of handle_msg.  hasMessage says whether
\* the key 'message' is there; isList whether on_privmsg has replaced the
\* message by its token list argv.
NoCom ==
    [nick |-> <<>>, user |-> <<>>, action |-> <<>>, recipient |-> <<>>,
     message |-> <<>>, hasMessage |-> FALSE, argv |-> <<>>, isList |-> FALSE,
     orig |-> <<>>]

\* The record of one step: the operation, its arguments, the handler list
\* before it, what was read, the lines sent, the strings given to the
\* regular expression, the events called, the handlers invoked, the
\* exception that left the step, and the lines whose socket.send raised.
NoLast ==
    [op |-> "none", sig |-> "", h |-> "", com |-> NoCom, before |-> <<>>,
     data |-> <<>>, out |-> <<>>, parsed |-> <<>>, pubs |-> <<>>,
     calls |-> <<>>, exc |-> "none", failed |-> <<>>]

\* The bot while one step runs: its events, its socket and the other end
\* of it, and the step's log.
Running(hs, s, cfg, p) ==
    [handlers |-> hs, soc |-> s, config |-> cfg, peer |-> p, arg |-> NoCom,
     out |-> <<>>, parsed |-> <<>>, pubs |-> <<>>, calls |-> <<>>,
     exc |-> "none", failed |-> <<>>]

\* --------------------------------------------------------------- send path

\* socket.send succeeds on a connected socket whose other end is open;
\* otherwise it raises.
SendRaises(b) == b.soc # "connected" \/ b.peer # "open"

\* Bot.send: the string and the terminator go to the socket; an exception
\* of the socket is printed by debug_out and dropped, and send returns
\* None either way.
Send(b, string) ==
    IF ~SendRaises(b) THEN [b EXCEPT !.out = Append(@, string \o <<CRLF>>)]
    ELSE [b EXCEPT !.failed = Append(@, string \o <<CRLF>>)]

\* Bot.send_action: '{0} {1}'.format(action, argument_string)
SendAction(b, action, argument) == Send(b, <<action, " ">> \o argument)

\* Bot.join
Join(b, chan) == SendAction(b, "JOIN", chan)

\* Bot.send_msg
SendMsg(b, recip, message) ==
    SendAction(b, "PRIVMSG", <<recip, " ", ":">> \o message)

\* quit with the socket closed before QUIT is sent.
QuitCloseFirst(b) ==
    [Send([b EXCEPT !.soc = "closed"], <<"QUIT">>) EXCEPT !.exc = "SystemExit"]

\* Bot.quit: QUIT, close the socket, sys.exit(0).
Quit(b) == [Send(b, <<"QUIT">>) EXCEPT !.soc = "closed", !.exc = "SystemExit"]

\* ------------------------------------------------------ built-in handlers

\* Bot.__owners
Owners == {<<"JaINTP">>}

\* data['message'][0]: "KeyError" without the key, "IndexError" on an empty
\* message, else "none".
MessageHeadError(data) ==
    IF ~data.hasMessage THEN "KeyError"
    ELSE IF data.isList /\ data.argv = <<>> THEN "IndexError"
    ELSE IF ~data.isList /\ data.message = <<>> THEN "IndexError"
    ELSE "none"

\* data['message'][0] as a string: the first token of a token list, the
\* first character of a text.
MessageHead(data) ==
    IF data.isList THEN data.argv[1] ELSE <<FirstChar(data.message)>>

\* on_command without the test of the sender.
IsShutdownAnySender(data) == MessageHead(data) = <<"die">>

\* The test of on_command: the sender is an owner and the first token is die.
IsShutdown(data) ==
    data.nick \in Owners /\ MessageHead(data) = <<"die">>

\* Bot.on_command
OnCommand(b) ==
    IF MessageHeadError(b.arg) # "none"
    THEN [b EXCEPT !.exc = MessageHeadError(b.arg)]
    ELSE IF IsShutdown(b.arg) THEN Quit(b)
    ELSE b

\* The channel on_kick joins: tmp[2] of the original line.
KickChannel(tmp) == tmp[3]

\* on_kick with the index of the channel where the kicked nick is meant.
IsOwnKickWrongIndex(tmp, nick) == tmp[3] = <<nick>>

\* The test of on_kick: tmp[3] is the bot's own nick.
IsOwnKick(tmp, nick) == tmp[4] = <<nick>>

\* Bot.on_kick
OnKick(b) ==
    Let(Split(b.arg.orig),
        LAMBDA tmp :
            IF Len(tmp) < 4 THEN [b EXCEPT !.exc = "IndexError"]
            ELSE IF IsOwnKick(tmp, ConfigGet(b.config, "nick"))
            THEN Join(b, KickChannel(tmp))
            ELSE b)

\* Bot.on_mode
OnMode(b) == b

\* The prefix on_privmsg compares with: Config.get('cchar').
CommandPrefix(cfg) == ConfigGet(cfg, "cchar")

\* The log of the step when Event.__call__ calls its i-th handler.
Called(b, sig, i) ==
    [b EXCEPT !.calls = Append(@, [sig |-> sig, h |-> b.handlers[sig][i],
                                   com |-> b.arg])]

\* The signal of the event whose __call__ is calling a handler.
CallingSignal(b) == b.calls[Len(b.calls)].sig

\* data['message'] = split(data['message'][1:]) in on_privmsg: the message
\* without its first character, as the list of its tokens.
CommandData(data) ==
    [data EXCEPT !.argv = Split(Tail(data.message)), !.isList = TRUE]

RECURSIVE EventCall(_, _, _)
RECURSIVE NextHandler(_, _, _)
RECURSIVE Invoke(_, _)
RECURSIVE OnPrivmsg(_)

\* Event.__call__ from the i-th handler on: the loop reads the live list;
\* an exception of a handler leaves the loop and the call.
EventCall(b, sig, i) ==
    IF i > Len(b.handlers[sig]) THEN b
    ELSE Let(Invoke(b.handlers[sig][i], Called(b, sig, i)),
             LAMBDA b1 : NextHandler(b1, sig, i))

\* The loop of Event.__call__ after its i-th handler has run.
NextHandler(b, sig, i) ==
    IF b.exc # "none" THEN b ELSE EventCall(b, sig, i + 1)

\* event(com): the call of one of the bot's events with the dict com.
Publish(b, sig, com) ==
    Let([b EXCEPT !.arg = com, !.pubs = Append(@, [sig |-> sig, com |-> com])],
        LAMBDA b0 : EventCall(b0, sig, 1))

\* Bot.on_privmsg: on the prefix, the message becomes the token list of the
\* rest and the COMMAND event is called with the same dict.  shlex.split of
\* a token list raises AttributeError; the format of the debug line reads
\* message[0] of the new list.
OnPrivmsg(b) ==
    IF MessageHeadError(b.arg) # "none"
    THEN [b EXCEPT !.exc = MessageHeadError(b.arg)]
    ELSE IF MessageHead(b.arg) # <<CommandPrefix(b.config)>> THEN b
    ELSE IF b.arg.isList THEN [b EXCEPT !.exc = "AttributeError"]
    ELSE Let([b EXCEPT !.arg = CommandData(b.arg)],
             LAMBDA b1 : IF b1.arg.argv = <<>> THEN [b1 EXCEPT !.exc = "IndexError"]
                         ELSE Publish(b1, "COMMAND", b1.arg))

\* handler(*args) in Event.__call__.  Of the callbacks of a client, hRaise
\* raises, hOnce unsubscribes itself from the event that calls it, hAddB
\* subscribes hB to it, and the others return.
Invoke(h, b) ==
    CASE h = "on_command" -> OnCommand(b)
      [] h = "on_privmsg" -> OnPrivmsg(b)
      [] h = "on_kick" -> OnKick(b)
      [] h = "on_mode" -> OnMode(b)
      [] h = "hRaise" -> [b EXCEPT !.exc = "Exception"]
      [] h = "hOnce" ->
            [b EXCEPT !.handlers[CallingSignal(b)] = EventISub(@, "hOnce")]
      [] h = "hAddB" ->
            [b EXCEPT !.handlers[CallingSignal(b)] = EventIAdd(@, "hB")]
      [] OTHER -> b

\* The event each built-in handler is added to in init_events.
BuiltinSignal(h) ==
    CASE h = "on_command" -> "COMMAND"
      [] h = "on_kick" -> "KICK"
      [] h = "on_mode" -> "MODE"
      [] h = "on_privmsg" -> "COMMAND"

\* Bot.init_events
InitEvents(hs) ==
    LET add(f, h) == [f EXCEPT ![BuiltinSignal(h)] = EventIAdd(@, h)]
    IN  add(add(add(add(hs, "on_command"), "on_kick"), "on_mode"), "on_privmsg")

\* ------------------------------------------------------------- handle_msg

\* Bot.__pat.match(data): the groups of
\*   :([^!]+)!(\S+)\s+(\S+)\s+:?(\S+)\s*(?:[:+-]+(.*))?(?:[:+-]+(.*))?
\* Every quantifier is greedy and, but for ":?", what follows it cannot
\* start with a symbol it matches, so the match is the one of longest runs.
\* ":?" gives its colon back when nothing but the colon is left for \S+.
\* "." does not match the line feed of the terminator, and the carriage
\* return it does match is stripped with the white space by rstrip.  The
\* second optional group starts where (.*) has stopped and never matches.
\* The places where the ten pieces of the expression end, left to right:
\*   1  the "!" that ends ([^!]+)        2  the end of (\S+), the user
\*   3  the end of \s+                   4  the end of (\S+), the action
\*   5  the end of \s+                   6  the end of :?
\*   7  the end of (\S+), the recipient  8  the end of \s*
\*   9  the end of [:+-]+               10  the end of (.*)
\* PieceEnd is where piece k ends when the piece before it ends at p.
PieceEnd(data, k, p) ==
    CASE k = 1 -> 2 + RunNotIn(data, 2, {"!"})
      [] k = 2 -> p + 1 + RunNotIn(data, p + 1, Space)
      [] k \in {3, 5, 8} -> p + RunIn(data, p, Space)
      [] k \in {4, 7} -> p + RunNotIn(data, p, Space)
      [] k = 6 -> IF p <= Len(data) /\ data[p] = ":"
                     /\ RunNotIn(data, p + 1, Space) >= 1
                  THEN p + 1 ELSE p
      [] k = 9 -> p + RunIn(data, p, Markers)
      [] k = 10 -> p + RunNotIn(data, p, {CRLF})

RECURSIVE PiecesUpTo(_, _)
PiecesUpTo(data, k) ==
    IF k = 0 THEN <<>>
    ELSE Let(PiecesUpTo(data, k - 1),
             LAMBDA ps : Append(ps, PieceEnd(data, k,
                                             IF k = 1 THEN 1 ELSE ps[k - 1])))

Positions(data) == PiecesUpTo(data, 10)

Groups(data) ==
    Let(Positions(data),
        LAMBDA ps :
            [ok |-> /\ Len(data) >= 1 /\ data[1] = ":"
                    /\ ps[1] > 2 /\ ps[1] <= Len(data)
                    /\ ps[2] > ps[1] + 1 /\ ps[3] > ps[2]
                    /\ ps[4] > ps[3] /\ ps[5] > ps[4]
                    /\ ps[7] > ps[6],
             nick |-> SubSeq(data, 2, ps[1] - 1),
             user |-> SubSeq(data, ps[1] + 1, ps[2] - 1),
             action |-> SubSeq(data, ps[3], ps[4] - 1),
             recipient |-> SubSeq(data, ps[6], ps[7] - 1),
             hasMessage |-> ps[9] > ps[8],
             message |-> IF ps[9] > ps[8] THEN SubSeq(data, ps[9], ps[10] - 1)
                         ELSE <<>>])

\* The dict com of handle_msg: the groups that are not None, each
\* rstripped, under the five keys in order, and the data under 'orig'.
ParseCom(data) ==
    Let(Groups(data),
        LAMBDA g :
            [nick |-> RStrip(g.nick), user |-> RStrip(g.user),
             action |-> RStrip(g.action), recipient |-> RStrip(g.recipient),
             message |-> RStrip(g.message), hasMessage |-> g.hasMessage,
             argv |-> <<>>, isList |-> FALSE, orig |-> data])

\* The name of the attribute that holds the event of a signal: the slot
\* '__irc_<signal>' of class Bot, under Python's name mangling.
EventSlot(sig) == <<"_Bot__irc_", sig>>

\* The name handle_msg looks up: 'irc_{0}'.format(com['action']).
HandlerAttr(action) == <<"irc_">> \o action

\* getattr(self, 'irc_<action>')(com): the call of the event held by the
\* attribute of that name; AttributeError when the bot has none.
Dispatch(b, com) ==
    IF \E s \in Signals : EventSlot(s) = HandlerAttr(com.action)
    THEN Publish(b, CHOOSE s \in Signals : EventSlot(s) = HandlerAttr(com.action),
                 com)
    ELSE [b EXCEPT !.exc = "AttributeError"]

\* except AttributeError: pass
DropAttributeError(b) ==
    IF b.exc = "AttributeError" THEN [b EXCEPT !.exc = "none"] ELSE b

\* Bot.handle_msg: the data goes to the expression as it is; on a match
\* the dict is built and dispatched.  AttributeError, of getattr or of a
\* handler, is dropped.
HandleMsg(b, data) ==
    IF ~Groups(data).ok THEN [b EXCEPT !.parsed = Append(@, data)]
    ELSE Let(Dispatch([b EXCEPT !.parsed = Append(@, data)], ParseCom(data)),
             LAMBDA r : DropAttributeError(r))

\* ---------------------------------------------------------------- mainloop

\* The text mainloop takes for the end of the message of the day.
Marker == <<"End", " ", "of", " ", "/MOTD">>

\* The first branch of the loop: data.startswith('PING').
IsPing(data) == StartsWith(data, <<"PING">>)

\* The token the loop echoes: data.split()[-1].
PongToken(data) == Let(Split(data), LAMBDA tokens : tokens[Len(tokens)])

\* One turn of the while loop of mainloop on the data of one recv.  An
\* exception that leaves handle_msg leaves the loop.
LoopBody(b, data) ==
    Let(IF IsPing(data) THEN SendAction(b, "PONG", PongToken(data))
        ELSE HandleMsg(b, data),
        LAMBDA b1 :
            IF b1.exc # "none" THEN b1
            ELSE IF Contains(data, Marker)
            THEN Join(b1, <<Str(ConfigGet(b1.config, "channel"))>>)
            ELSE b1)

\* connect with the message to Nickserv sent before NICK and USER.
RegisterIdentifyFirst(b) ==
    SendAction(SendAction(SendMsg(b, "Nickserv",
                                  <<"identify", " ",
                                    Str(ConfigGet(b.config, "password"))>>),
                          "NICK", <<Str(ConfigGet(b.config, "nick"))>>),
               "USER",
               <<Str(ConfigGet(b.config, "nick")), " ", "PyBot", " ", "PyBot",
                 " ", ":", "JaINTP's", " ", "Python", " ", "IRC", " ", "bot.">>)

\* Bot.connect after socket.connect has returned: NICK, USER and the
\* message to Nickserv.
Register(b) ==
    SendMsg(SendAction(SendAction(b, "NICK", <<Str(ConfigGet(b.config, "nick"))>>),
                       "USER",
                       <<Str(ConfigGet(b.config, "nick")), " ", "PyBot", " ",
                         "PyBot", " ", ":", "JaINTP's", " ", "Python", " ",
                         "IRC", " ", "bot.">>),
            "Nickserv",
            <<"identify", " ", Str(ConfigGet(b.config, "password"))>>)

\* How a step ends: sys.exit ends the process, another exception that
\* reaches the top of mainloop ends it with a traceback.
After(exc) ==
    IF exc = "none" THEN "running"
    ELSE IF exc = "SystemExit" THEN "exited"
    ELSE "crashed"

\* ------------------------------------------------------------------ server

\* The lines the server sends.
LinePing == <<"PING", " ", ":", "abc", CRLF>>

LineCommand ==
    <<":", "n", "!", "u@h", " ", "PRIVMSG", " ", "#c", " ", ":", "!", "greet",
      " ", "bob", CRLF>>

LineMotd ==
    <<":", "srv", " ", "376", " ", "bot", " ", ":", "End", " ", "of", " ",
      "/MOTD", CRLF>>

LineChat ==
    <<":", "n", "!", "u@h", " ", "PRIVMSG", " ", "#c", " ", ":", "End", " ",
      "of", " ", "/MOTD", CRLF>>

ServerLines == {LinePing, LineCommand, LineMotd, LineChat}

\* ----------------------------------------------------------------- actions

Init ==
    /\ pc = "constructed"
    /\ connected = FALSE
    /\ soc = "fresh"
    /\ config \in {LoadConfig(f) : f \in ConfigFiles}
    /\ handlers = NoHandlers
    /\ inflight = <<>>
    /\ rxAll = <<>>
    /\ nLines = 0
    /\ outbox = <<>>
    /\ nCalls = 0
    /\ peer = "open"
    /\ last = NoLast

\* mainloop up to the loop: init_events, then connect, which succeeds;
\* socket.connect takes no address whose host is None.
Start ==
    /\ pc = "constructed"
    /\ ConfigGet(config, "server") # None
    /\ \E b \in {Register(Running(InitEvents(handlers), "connected", config, peer))} :
           /\ handlers' = b.handlers
           /\ soc' = b.soc
           /\ outbox' = outbox \o b.out
           /\ last' = [NoLast EXCEPT !.op = "start", !.out = b.out,
                                     !.failed = b.failed]
    /\ connected' = TRUE
    /\ pc' = "running"
    /\ UNCHANGED <<config, inflight, rxAll, nLines, nCalls, peer>>

\* mainloop when socket.connect raises, TypeError on a host that is None
\* and OSError when the server cannot be reached: the exception leaves
\* mainloop.
ConnectFails ==
    /\ pc = "constructed"
    /\ handlers' = InitEvents(handlers)
    /\ pc' = "crashed"
    /\ last' = [NoLast EXCEPT !.op = "connect_fails",
                              !.exc = IF ConfigGet(config, "server") = None
                                      THEN "TypeError" ELSE "OSError"]
    /\ UNCHANGED <<connected, soc, config, inflight, rxAll, nLines, outbox,
                   nCalls, peer>>

\* The server sends one more line.
ServerSend(line) ==
    /\ soc = "connected"
    /\ peer = "open"
    /\ nLines < MaxLines
    /\ inflight' = inflight \o line
    /\ nLines' = nLines + 1
    /\ last' = [NoLast EXCEPT !.op = "server", !.data = line]
    /\ UNCHANGED <<pc, connected, soc, config, handlers, rxAll, outbox,
                   nCalls, peer>>

\* One turn of the loop: recv returns the first k symbols in flight.
Recv(k) ==
    /\ pc = "running"
    /\ connected
    /\ k \in 1..Min(Len(inflight), RecvSize)
    /\ \E b \in {LoopBody(Running(handlers, soc, config, peer), SubSeq(inflight, 1, k))} :
           /\ inflight' = SubSeq(inflight, k + 1, Len(inflight))
           /\ rxAll' = rxAll \o SubSeq(inflight, 1, k)
           /\ handlers' = b.handlers
           /\ soc' = b.soc
           /\ outbox' = outbox \o b.out
           /\ pc' = After(b.exc)
           /\ last' = [NoLast EXCEPT !.op = "recv",
                                     !.data = SubSeq(inflight, 1, k),
                                     !.out = b.out, !.parsed = b.parsed,
                                     !.pubs = b.pubs, !.calls = b.calls,
                                     !.exc = b.exc, !.failed = b.failed]
    /\ UNCHANGED <<connected, config, nLines, nCalls, peer>>

Next ==
    \/ Start
    \/ ConnectFails
    \/ \E line \in ServerLines : ServerSend(line)
    \/ \E k \in 1..Len(inflight) : Recv(k)

\* The program: mainloop against a server.
Spec == Init /\ [][Next]_vars

\* ------------------------------------------- events published by a caller

\* The lines whose dicts a caller publishes.
LineKickOwn ==
    <<":", "op", "!", "u@h", " ", "KICK", " ", "#c", " ", "bot", " ", ":",
      "bye", CRLF>>

LineKickOther ==
    <<":", "op", "!", "u@h", " ", "KICK", " ", "#c", " ", "n", " ", ":",
      "bye", CRLF>>

LineKickElsewhere ==
    <<":", "op", "!", "u@h", " ", "KICK", " ", "#d", " ", "bot", " ", ":",
      "bye", CRLF>>

LineKickShort == <<":", "op", "!", "u@h", " ", "KICK", " ", "#c", CRLF>>

LineMode ==
    <<":", "op", "!", "u@h", " ", "MODE", " ", "#c", " ", "+", "o", " ",
      "bot", CRLF>>

LineOwnerDie ==
    <<":", "JaINTP", "!", "u@h", " ", "PRIVMSG", " ", "#c", " ", ":", "!",
      "die", CRLF>>

LineOtherDie ==
    <<":", "n", "!", "u@h", " ", "PRIVMSG", " ", "#c", " ", ":", "!", "die",
      CRLF>>

LineOwnerGreet ==
    <<":", "JaINTP", "!", "u@h", " ", "PRIVMSG", " ", "#c", " ", ":", "!",
      "greet", " ", "bob", CRLF>>

\* The events a caller publishes: each line's dict on the signal of its
\* verb, and the dict of each command line, as on_privmsg makes it, on
\* COMMAND.
CallerEvents ==
    {[sig |-> Groups(l).action[1], com |-> ParseCom(l)] :
        l \in {LineKickOwn, LineKickElsewhere, LineKickOther, LineKickShort,
               LineMode, LineOwnerGreet, LineOtherDie}}
    \cup {[sig |-> "COMMAND", com |-> CommandData(ParseCom(l))] :
        l \in {LineOwnerDie, LineOtherDie, LineOwnerGreet}}

\* A caller calls the event of a signal with a dict, as handle_msg and
\* on_privmsg do.  sys.exit ends the process; any other exception reaches
\* the caller.
CallEvent(sig, com) ==
    /\ pc = "running"
    /\ nCalls < MaxPublishes
    /\ \E b \in {Publish(Running(handlers, soc, config, peer), sig, com)} :
           /\ handlers' = b.handlers
           /\ soc' = b.soc
           /\ outbox' = outbox \o b.out
           /\ pc' = IF b.exc = "SystemExit" THEN "exited" ELSE pc
           /\ last' = [NoLast EXCEPT !.op = "publish", !.sig = sig, !.com = com,
                                     !.before = handlers[sig], !.out = b.out,
                                     !.pubs = b.pubs, !.calls = b.calls,
                                     !.exc = b.exc, !.failed = b.failed]
    /\ nCalls' = nCalls + 1
    /\ UNCHANGED <<connected, config, inflight, rxAll, nLines, peer>>

HandlerNext ==
    \/ Start
    \/ \E e \in CallerEvents : CallEvent(e.sig, e.com)

\* The bot with its built-in handlers, its events called by a caller.
HandlerSpec == Init /\ [][HandlerNext]_vars

\* ------------------------------------------------- a client of the events

\* The events a client subscribes to: two that the bot leaves empty.
ClientSignals == {"JOIN", "NOTICE"}

\* event += handler
Subscribe(sig, h) ==
    /\ handlers' = [handlers EXCEPT ![sig] = EventIAdd(@, h)]
    /\ last' = [NoLast EXCEPT !.op = "subscribe", !.sig = sig, !.h = h,
                              !.before = handlers[sig]]
    /\ UNCHANGED <<pc, connected, soc, config, inflight, rxAll, nLines, outbox,
                   nCalls, peer>>

\* event -= handler
Unsubscribe(sig, h) ==
    /\ handlers' = [handlers EXCEPT ![sig] = EventISub(@, h)]
    /\ last' = [NoLast EXCEPT !.op = "unsubscribe", !.sig = sig, !.h = h,
                              !.before = handlers[sig]]
    /\ UNCHANGED <<pc, connected, soc, config, inflight, rxAll, nLines, outbox,
                   nCalls, peer>>

\* event(com)
ClientPublish(sig, com) ==
    /\ \E b \in {Publish(Running(handlers, soc, config, peer), sig, com)} :
           /\ handlers' = b.handlers
           /\ last' = [NoLast EXCEPT !.op = "publish", !.sig = sig, !.com = com,
                                     !.before = handlers[sig], !.out = b.out,
                                     !.pubs = b.pubs, !.calls = b.calls,
                                     !.exc = b.exc]
    /\ UNCHANGED <<pc, connected, soc, config, inflight, rxAll, nLines, outbox,
                   nCalls, peer>>

EventNext ==
    \/ \E sig \in ClientSignals, h \in ClientHandlers : Subscribe(sig, h)
    \/ \E sig \in ClientSignals, h \in ClientHandlers : Unsubscribe(sig, h)
    \/ \E sig \in ClientSignals : ClientPublish(sig, ParseCom(LineChat))

\* The Event class under a client that subscribes, unsubscribes and
\* publishes in any order.
EventSpec == Init /\ [][EventNext]_vars

\* The callbacks of a client that change the handler list of the event
\* that calls them, and two that do not.
ReentrantHandlers == {"hA", "hB", "hOnce", "hAddB"}

ReentrantNext ==
    \/ \E sig \in ClientSignals, h \in ReentrantHandlers : Subscribe(sig, h)
    \/ \E sig \in ClientSignals, h \in ReentrantHandlers : Unsubscribe(sig, h)
    \/ \E sig \in ClientSignals : ClientPublish(sig, ParseCom(LineChat))

\* The Event class under a client whose handlers subscribe and unsubscribe
\* while the event calls them.
ReentrantSpec == Init /\ [][ReentrantNext]_vars

\* --------------------------------------------- the other end of the socket

\* The server closes its end of the connection: what it has sent can still
\* be read, and after it recv returns the empty string.
PeerCloses ==
    /\ soc = "connected"
    /\ peer = "open"
    /\ peer' = "closed"
    /\ last' = [NoLast EXCEPT !.op = "peer_closes"]
    /\ UNCHANGED <<pc, connected, soc, config, handlers, inflight, rxAll,
                   nLines, outbox, nCalls>>

\* The connection is reset: what was in flight is lost, and recv raises.
PeerResets ==
    /\ soc = "connected"
    /\ peer = "open"
    /\ peer' = "reset"
    /\ inflight' = <<>>
    /\ last' = [NoLast EXCEPT !.op = "peer_resets"]
    /\ UNCHANGED <<pc, connected, soc, config, handlers, rxAll, nLines, outbox,
                   nCalls>>

\* One turn of the loop at the end of the stream: recv returns b'', and
\* the loop body runs on the empty string.
RecvEof ==
    /\ pc = "running"
    /\ connected
    /\ peer = "closed"
    /\ inflight = <<>>
    /\ \E b \in {LoopBody(Running(handlers, soc, config, peer), <<>>)} :
           /\ handlers' = b.handlers
           /\ soc' = b.soc
           /\ outbox' = outbox \o b.out
           /\ pc' = After(b.exc)
           /\ last' = [NoLast EXCEPT !.op = "recv", !.out = b.out,
                                     !.parsed = b.parsed, !.pubs = b.pubs,
                                     !.calls = b.calls, !.exc = b.exc,
                                     !.failed = b.failed]
    /\ UNCHANGED <<connected, config, inflight, rxAll, nLines, nCalls, peer>>

\* One turn of the loop on a reset connection: recv raises, and the
\* exception leaves mainloop.
RecvFails ==
    /\ pc = "running"
    /\ connected
    /\ peer = "reset"
    /\ pc' = After("ConnectionResetError")
    /\ last' = [NoLast EXCEPT !.op = "recv", !.exc = "ConnectionResetError"]
    /\ UNCHANGED <<connected, soc, config, handlers, inflight, rxAll, nLines,
                   outbox, nCalls, peer>>

NetNext ==
    \/ Next
    \/ PeerCloses
    \/ PeerResets
    \/ RecvEof
    \/ RecvFails

\* The program against a server that may close or reset the connection.
NetSpec == Init /\ [][NetNext]_vars

ShutdownNext ==
    \/ HandlerNext
    \/ PeerCloses
    \/ PeerResets

\* The bot with its built-in handlers, its events called by a caller, on a
\* connection that the server may close or reset.
ShutdownSpec == Init /\ [][ShutdownNext]_vars

\* ------------------------------------------------- configuration files

\* The settings the bot reads with Config.get.
RequiredKeys == {"nick", "server", "password", "channel", "cchar"}

\* Files that lack the line of one key, and a file with a key that Config
\* does not know.
PartialFiles ==
    {[FullFile EXCEPT ![k] = None] : k \in RequiredKeys \cup {"command_char"}}
    \cup {FullFile, [FullFile EXCEPT !["colour"] = "red"]}

\* Bot.__init__ on any of these files.
ConfigInit ==
    /\ pc = "constructed"
    /\ connected = FALSE
    /\ soc = "fresh"
    /\ config \in {LoadConfig(f) : f \in PartialFiles}
    /\ handlers = NoHandlers
    /\ inflight = <<>>
    /\ rxAll = <<>>
    /\ nLines = 0
    /\ outbox = <<>>
    /\ nCalls = 0
    /\ peer = "open"
    /\ last = NoLast

ConfigNext ==
    \/ HandlerNext
    \/ ConnectFails

\* The bot started on each of the files, its events called by a caller.
ConfigSpec == ConfigInit /\ [][ConfigNext]_vars

\* ------------------------------------------------------ lines for the parser

\* The parts of the lines.
Nicks == {"n", "JaINTP"}
Users == {"u@h"}
Servers == {"irc.example"}
Commands == {"PRIVMSG", "NOTICE", "KICK"}
Targets == {"#c", "bot"}
TrailingSymbols == {":", "+", "-", " ", "hi"}
Trailings == UNION {[1..n -> TrailingSymbols] : n \in 0..MaxTrailing}

\* A line comes with its terminator, as recv returns it, or without.
Ends == {<<>>, <<CRLF>>}

\* :nick!user@host COMMAND target :trailing
WellFormed(n, u, c, t, tr) ==
    <<":", n, "!", u, " ", c, " ", t, " ", ":">> \o tr

\* COMMAND target :trailing
NoPrefix(c, t, tr) == <<c, " ", t, " ", ":">> \o tr

\* :server COMMAND target :trailing
ServerPrefix(sv, c, t, tr) == <<":", sv, " ", c, " ", t, " ", ":">> \o tr

ParserLines ==
    {WellFormed(n, u, c, t, tr) \o e :
        n \in Nicks, u \in Users, c \in Commands, t \in Targets,
        tr \in Trailings, e \in Ends}
    \cup {NoPrefix(c, t, tr) \o e :
        c \in Commands, t \in Targets, tr \in Trailings, e \in Ends}
    \cup {ServerPrefix(sv, c, t, tr) \o e :
        sv \in Servers, c \in Commands, t \in Targets, tr \in Trailings,
        e \in Ends}

\* A bot as constructed, and one line for its parser.
ParserInit ==
    /\ pc = "constructed"
    /\ connected = FALSE
    /\ soc = "fresh"
    /\ config \in {LoadConfig(f) : f \in ConfigFiles}
    /\ handlers = NoHandlers
    /\ inflight \in ParserLines
    /\ rxAll = <<>>
    /\ nLines = 0
    /\ outbox = <<>>
    /\ nCalls = 0
    /\ peer = "open"
    /\ last = NoLast

\* The parsing of handle_msg on the line: the match of the expression and,
\* on a match, the dict com; without a match handle_msg does nothing.
Parse ==
    /\ pc = "constructed"
    /\ inflight # <<>>
    /\ \E g \in {Groups(inflight)} :
           last' = [NoLast EXCEPT !.op = "parse", !.data = inflight,
                                  !.com = IF g.ok THEN ParseCom(inflight)
                                          ELSE NoCom,
                                  !.exc = IF g.ok THEN "none" ELSE "NoMatch"]
    /\ inflight' = <<>>
    /\ UNCHANGED <<pc, connected, soc, config, handlers, rxAll, nLines, outbox,
                   nCalls, peer>>

ParserNext == Parse

\* The parser on every line of the set.
ParserSpec == ParserInit /\ [][ParserNext]_vars

\* ------------------------------------------------- the lines of the stream

\* The places of the terminators in a stream.
Terminators(stream) == {i \in 1..Len(stream) : stream[i] = CRLF}

\* The complete lines of a stream, each with its terminator, in order; a
\* tail without terminator is no line.
CompleteLines(stream) ==
    LET ends == Terminators(stream)
        endOf(k) == CHOOSE e \in ends : Cardinality({x \in ends : x < e}) = k - 1
        startOf(k) == IF k = 1 THEN 1 ELSE endOf(k - 1) + 1
    IN  [k \in 1..Cardinality(ends) |-> SubSeq(stream, startOf(k), endOf(k))]

\* The lines that the data of the last recv completed.
NewLines ==
    LET before == SubSeq(rxAll, 1, Len(rxAll) - Len(last.data))
    IN  SubSeq(CompleteLines(rxAll), Cardinality(Terminators(before)) + 1,
               Cardinality(Terminators(rxAll)))

\* s without the terminator at its end.
Chomp(s) == IF s # <<>> /\ s[Len(s)] = CRLF THEN SubSeq(s, 1, Len(s) - 1) ELSE s

\* A keep-alive line, PING <token>, and the token it carries.
IsPingLine(line) == Len(line) >= 2 /\ line[1] = "PING" /\ line[2] = " "
PingToken(line) == Chomp(SubSeq(line, 3, Len(line)))

\* A line of the grammar whose command is a signal of the bus.
IsSignalLine(line) ==
    /\ ~IsPingLine(line)
    /\ Groups(line).ok
    /\ \E v \in Signals : Groups(line).action = <<v>>
SignalOf(line) == Groups(line).action[1]

\* A PRIVMSG line whose text starts with the prefix "!".
IsCommandLine(line) ==
    /\ IsSignalLine(line)
    /\ SignalOf(line) = "PRIVMSG"
    /\ Groups(line).hasMessage
    /\ StartsWith(Groups(line).message, <<"!">>)

IsNotPingLine(line) == ~IsPingLine(line)
IsJoin(line) == StartsWith(line, <<"JOIN", " ">>)
IsCommandPub(p) == p.sig = "COMMAND"

\* ------------------------------------------------------------------ claims

\* C1: every keep-alive line PING <token> that a read completes is answered
\* in that turn of the read loop by exactly one PONG <token> with its own
\* token, wherever the line stands in the read.
C1_PingAnswered ==
    last.op = "recv" =>
        \A i \in 1..Len(NewLines) :
            IsPingLine(NewLines[i]) =>
                Cardinality({j \in 1..Len(last.out) :
                    last.out[j] = <<"PONG", " ">> \o PingToken(NewLines[i])
                                      \o <<CRLF>>})
                = Cardinality({k \in 1..Len(NewLines) : NewLines[k] = NewLines[i]})

\* C2: every line of the grammar that is no PING and whose verb V is a signal
\* is published once on V, and every handler subscribed to V is invoked
\* exactly once with it.
C2_LinePublished ==
    last.op = "recv" =>
        LET lines == SelectSeq(NewLines, IsSignalLine)
        IN  /\ Len(last.pubs) = Len(lines)
            /\ \A i \in 1..Len(lines) :
                   /\ last.pubs[i].sig = SignalOf(lines[i])
                   /\ Chomp(last.pubs[i].com.orig) = Chomp(lines[i])
                   /\ \A h \in Range(handlers[SignalOf(lines[i])]) :
                          Cardinality({j \in 1..Len(last.calls) :
                              /\ last.calls[j].h = h
                              /\ last.calls[j].sig = SignalOf(lines[i])
                              /\ Chomp(last.calls[j].com.orig) = Chomp(lines[i])}) = 1

\* C3: the strings given to the parser in one turn of the read loop are the
\* lines that the read completed, each once and in order; a piece of a line
\* is never parsed.  (A PING line is answered before the parser.)
C3_LineFraming ==
    last.op = "recv" =>
        LET lines == SelectSeq(NewLines, IsNotPingLine)
        IN  /\ Len(last.parsed) = Len(lines)
            /\ \A i \in 1..Len(lines) : Chomp(last.parsed[i]) = Chomp(lines[i])

\* C4: the session holds one JOIN of the configured channel once the marker
\* of the end of the MOTD has come in, however it was read and however often
\* its text comes again, and none before.
C4_OneJoin ==
    SelectSeq(outbox, IsJoin) =
        IF Contains(rxAll, Marker)
        THEN <<<<"JOIN", " ", Str(ConfigGet(config, "channel")), CRLF>>>>
        ELSE <<>>

\* C5: with the prefix set to "!", every PRIVMSG line whose text starts with
\* the prefix is published once on COMMAND with the tokens of the rest (the
\* name, then the arguments), and no other line is.
C5_CommandPublished ==
    last.op = "recv" =>
        LET lines == SelectSeq(NewLines, IsCommandLine)
            cmds == SelectSeq(last.pubs, IsCommandPub)
        IN  /\ Len(cmds) = Len(lines)
            /\ \A i \in 1..Len(lines) :
                   /\ cmds[i].com.isList
                   /\ cmds[i].com.argv = Split(Tail(Groups(lines[i]).message))

\* The first token of a COMMAND dict, and the parts of a KICK line.
IsDieCommand ==
    /\ last.op = "publish" /\ last.sig = "COMMAND"
    /\ last.com.isList /\ last.com.argv # <<>> /\ last.com.argv[1] = <<"die">>

IsKick ==
    /\ last.op = "publish" /\ last.sig = "KICK"
    /\ Len(Split(last.com.orig)) >= 4

KickedNick == Split(last.com.orig)[4]
KickedFrom == Split(last.com.orig)[3]

QuitCalled ==
    \/ pc = "exited"
    \/ soc = "closed"
    \/ <<"QUIT", CRLF>> \in Range(outbox)

\* C6: quit is called only by a COMMAND event whose sender is an owner and
\* whose first token is die; a die from any other sender sends nothing,
\* leaves the socket open and the session running.
C6_OwnerOnlyShutdown ==
    /\ QuitCalled => IsDieCommand /\ last.com.nick \in Owners
    /\ IsDieCommand /\ last.com.nick \notin Owners =>
           /\ last.out = <<>>
           /\ soc = "connected"
           /\ pc = "running"
           /\ ~QuitCalled

\* A die from a sender who is no owner has been published and the session
\* runs on.
C6_Witness ==
    /\ IsDieCommand /\ last.com.nick \notin Owners
    /\ pc = "running"

\* C7: with the built-in handlers registered, a KICK event whose kicked nick
\* is the bot's own sends exactly one line, the JOIN of the channel of the
\* event, and a KICK event of any other nick sends no line.
C7_KickRejoin ==
    IsKick =>
        last.out = IF KickedNick = <<ConfigGet(config, "nick")>>
                   THEN <<<<"JOIN", " ">> \o KickedFrom \o <<CRLF>>>>
                   ELSE <<>>

\* The bot has been kicked and has sent its JOIN.
C7_Witness ==
    /\ IsKick
    /\ KickedNick = <<ConfigGet(config, "nick")>>
    /\ last.out = <<<<"JOIN", " ", "#d", CRLF>>>>

\* How often the last publish invoked h.
Invocations(h) == Cardinality({j \in 1..Len(last.calls) : last.calls[j].h = h})

NoDuplicates(hs) == \A i, j \in 1..Len(hs) : hs[i] = hs[j] => i = j

\* C8: a handler that fails during a publish does not keep the handlers
\* subscribed after it from being invoked in that publish, and its failure
\* does not leave the publish.
C8_FailureIsolated ==
    last.op = "publish" =>
        /\ \A h \in Range(last.before) : Invocations(h) >= 1
        /\ last.exc = "none"

\* C9: no handler list holds a handler twice; subscribing a subscribed
\* handler leaves the list as it was; and each publish invokes each
\* subscribed handler exactly once.
C9_IdempotentSubscribe ==
    /\ \A sig \in Signals : NoDuplicates(handlers[sig])
    /\ last.op = "subscribe" /\ last.h \in Range(last.before) =>
           handlers[last.sig] = last.before
    /\ last.op = "publish" =>
           \A h \in Range(last.before) : Invocations(h) = 1

\* C10: unsubscribing a handler that is not subscribed raises nothing and
\* leaves the list as it was; a publish never invokes a handler that has
\* been unsubscribed and not subscribed again, and it invokes every handler
\* that is subscribed.
C10_Unsubscribe ==
    /\ last.op = "unsubscribe" /\ last.h \notin Range(last.before) =>
           handlers[last.sig] = last.before /\ last.exc = "none"
    /\ last.op = "unsubscribe" => last.h \notin Range(handlers[last.sig])
    /\ last.op = "publish" =>
           /\ \A h \in ClientHandlers \ Range(last.before) : Invocations(h) = 0
           /\ \A h \in Range(last.before) : Invocations(h) >= 1
\* The handlers the last publish invoked, in the order of their calls.
CalledOrder == [j \in 1..Len(last.calls) |-> last.calls[j].h]

IsNotLastH(h) == h # last.h

\* C11: a subscribe of a handler that is not subscribed puts it last and any
\* other subscribe changes nothing; an unsubscribe takes the handler out and
\* keeps the order of the others; and a publish invokes the subscribed
\* handlers, each once, in the order of the list.
C11_PublishOrder ==
    /\ last.op = "subscribe" =>
           handlers[last.sig] = IF last.h \in Range(last.before) THEN last.before
                                ELSE Append(last.before, last.h)
    /\ last.op = "unsubscribe" =>
           handlers[last.sig] = SelectSeq(last.before, IsNotLastH)
    /\ last.op = "publish" => CalledOrder = last.before
EndsWithCRLF(line) == line # <<>> /\ line[Len(line)] = CRLF

\* C12: every line that goes out ends with the terminator; a line whose
\* write failed is not written again by the step; and a step in which a
\* write failed ends with that error, so that the caller of the send sees it.
C12_SendPath ==
    /\ \A i \in 1..Len(outbox) : EndsWithCRLF(outbox[i])
    /\ \A i \in 1..Len(last.failed) : last.failed[i] \notin Range(last.out)
    /\ last.failed # <<>> => last.exc = "OSError"

\* The last read returned the end of the stream, or raised.
ReadEnded ==
    /\ last.op = "recv"
    /\ last.data = <<>>

\* C13: once a read has returned the end of the stream or has raised, the
\* bot is no longer connected and its read loop has stopped.
C13_ConnectionLoss == ReadEnded => ~connected /\ pc # "running"
QuitLine == <<"QUIT", CRLF>>

\* The last step published a die of an owner on COMMAND.
OwnerDie == IsDieCommand /\ last.com.nick \in Owners

\* C14: the die of an owner writes QUIT and nothing else (to a connection
\* that is up; the write fails on one that is down), leaves the socket
\* closed and ends the process; QUIT is then the last line that went out;
\* and once the process has ended no further step is taken, so the step of
\* the die stays the last one: nothing is sent or read after it and the
\* socket stays closed.
C14_QuitOrder ==
    /\ OwnerDie =>
           /\ last.out = IF peer = "open" THEN <<QuitLine>> ELSE <<>>
           /\ last.failed = IF peer = "open" THEN <<>> ELSE <<QuitLine>>
           /\ soc = "closed"
           /\ pc = "exited"
    /\ pc = "exited" =>
           /\ OwnerDie
           /\ soc = "closed"
           /\ peer = "open" => outbox[Len(outbox)] = QuitLine
           /\ \A i \in 1..(Len(outbox) - 1) : outbox[i] # QuitLine

\* An owner's die has ended a session that had sent a JOIN after the
\* registration: QUIT is the last of the lines.
C14_Witness ==
    /\ OwnerDie
    /\ pc = "exited"
    /\ Len(outbox) = 5
    /\ outbox[5] = QuitLine

\* An owner's die on a connection that is down: the write of QUIT has
\* failed and the socket is closed all the same.
C14_WitnessFailed ==
    /\ OwnerDie
    /\ last.failed = <<QuitLine>>
    /\ soc = "closed"
\* The three lines of the registration, for the settings of the bot.
NickLine == <<"NICK", " ", Str(ConfigGet(config, "nick")), CRLF>>

IsUserLine(line) ==
    StartsWith(line, <<"USER", " ", Str(ConfigGet(config, "nick")), " ">>)

IdentifyLine ==
    <<"PRIVMSG", " ", "Nickserv", " ", ":", "identify", " ",
      Str(ConfigGet(config, "password")), CRLF>>

\* C15: while the socket is not connected nothing has been sent, and a
\* connect that fails ends mainloop with its exception; whenever the bot is
\* marked connected, or has read anything, or has sent anything, the first
\* three lines that went out are NICK, USER and the identify message to
\* Nickserv, in this order.
C15_RegistrationOrder ==
    /\ soc = "fresh" => outbox = <<>> /\ ~connected /\ rxAll = <<>>
    /\ last.op = "connect_fails" =>
           pc = "crashed" /\ last.exc # "none" /\ soc = "fresh"
    /\ connected \/ rxAll # <<>> \/ outbox # <<>> =>
           /\ Len(outbox) >= 3
           /\ outbox[1] = NickLine
           /\ IsUserLine(outbox[2])
           /\ outbox[3] = IdentifyLine

\* The bot has registered, has read from the server and has sent a fourth
\* line.
C15_Witness ==
    /\ connected
    /\ rxAll # <<>>
    /\ Len(outbox) > 3
    /\ outbox[1] = NickLine
\* A setting that the file gave no value: nick, server, password or channel.
\* (Config.get('cchar') is None with every file.)
MissingSetting ==
    \E k \in RequiredKeys \ {"cchar"} : ConfigGet(config, k) = None

\* C16: a key that Config does not know changes no setting; and with a
\* required setting missing, the start ends in a configuration error: the
\* socket is never connected, no line goes out, and nothing but that error
\* ends the start.
C16_ConfigErrors ==
    /\ \A f \in PartialFiles : \A k \in ConfigKeys \ ConfigSlots :
           LoadConfig([f EXCEPT ![k] = "red"]) = LoadConfig(f)
    /\ MissingSetting =>
           /\ soc = "fresh"
           /\ outbox = <<>>
           /\ last.failed = <<>>
           /\ pc # "constructed" => last.exc = "ConfigurationError"
\* C17: every line :nick!user@host COMMAND target :trailing is matched, and
\* its dict holds the nick, user@host, the command, the target and the
\* trailing text as they stand in the line, and the line itself unchanged.
C17_ParserFields ==
    last.op = "parse" =>
        \A n \in Nicks, u \in Users, c \in Commands, t \in Targets,
           tr \in Trailings, e \in Ends :
            last.data = WellFormed(n, u, c, t, tr) \o e =>
                /\ last.exc = "none"
                /\ last.com.nick = <<n>>
                /\ last.com.user = <<u>>
                /\ last.com.action = <<c>>
                /\ last.com.recipient = <<t>>
                /\ last.com.hasMessage
                /\ last.com.message = tr
                /\ last.com.orig = last.data

\* C18: a line without a prefix, and a line whose prefix is a server name
\* without "!", is matched, and its dict holds the command and the target of
\* the line, the server name as the origin, and no user.
C18_PrefixOptional ==
    last.op = "parse" =>
        \A c \in Commands, t \in Targets, tr \in Trailings, e \in Ends :
            /\ last.data = NoPrefix(c, t, tr) \o e =>
                   /\ last.exc = "none"
                   /\ last.com.action = <<c>>
                   /\ last.com.recipient = <<t>>
                   /\ last.com.nick = <<>>
                   /\ last.com.user = <<>>
            /\ \A sv \in Servers :
                   last.data = ServerPrefix(sv, c, t, tr) \o e =>
                       /\ last.exc = "none"
                       /\ last.com.action = <<c>>
                       /\ last.com.recipient = <<t>>
                       /\ last.com.nick = <<sv>>
                       /\ last.com.user = <<>>
\* The signal of the event that each built-in handler is written for.
OwnSignal(h) ==
    CASE h = "on_command" -> "COMMAND"
      [] h = "on_privmsg" -> "PRIVMSG"
      [] h = "on_kick" -> "KICK"
      [] h = "on_mode" -> "MODE"

\* C19: once init_events has run, each built-in handler is in the handler
\* list of the event of its own signal and in no other list; and a publish
\* on COMMAND invokes on_command and no other handler.
C19_BuiltinRegistration ==
    pc # "constructed" =>
        /\ \A h \in BuiltinHandlers : \A sig \in Signals :
               h \in Range(handlers[sig]) <=> sig = OwnSignal(h)
        /\ last.op = "publish" /\ last.sig = "COMMAND" =>
               \A j \in 1..Len(last.calls) : last.calls[j].h = "on_command"
\* C20: when handlers subscribe or unsubscribe on the signal of a running
\* publish, every handler that was subscribed at its start and is still
\* subscribed at its end has been invoked exactly once in it, and no handler
\* has been invoked twice.
C20_ReentrantPublish ==
    last.op = "publish" =>
        /\ \A h \in Range(last.before) :
               h \in Range(handlers[last.sig]) => Invocations(h) = 1
        /\ \A h \in ReentrantHandlers : Invocations(h) <= 1

=============================================================================
